---- MODULE Spec2Model ----
(***************************************************************************)
(* toki: the photo library manager's rename and organize commands.         *)
(*                                                                         *)
(* A run is one invocation of `toki rename` or `toki organize`: the        *)
(* coordinator discovers the supported files, submits one task per file to *)
(* a ProcessPoolExecutor, collects the futures as they complete and prints *)
(* the final report.  Each task is one call of rename_file_worker or       *)
(* organize_file_worker; its filesystem calls (exists, move, copy, mkdir)  *)
(* are the points at which the worker processes interleave.                *)
(*                                                                         *)
(* A path is a record [dir, stem, ext]: dir the sequence of directory      *)
(* names, stem and ext the strings pathlib calls Path.stem and             *)
(* Path.suffix.  File names are built with string concatenation, as the    *)
(* f-strings of the source build them.                                     *)
(***************************************************************************)
EXTENDS Integers, Sequences, FiniteSets, TLC

\* ------------------------------------------------------------------ bounds
\* MaxFiles: files in the library at the first run.  MaxWorkers: the largest
\* --workers value.  MaxRuns: invocations of `toki rename` in a row.
\* MaxFaults: filesystem calls that fail (stat, exists, mkdir, move, copy).
MaxFiles == 2
MaxWorkers == 2
MaxRuns == 2
MaxFaults == 1
MaxHashLength == 32

\* ------------------------------------------------------------- utils.py
SUPPORTED_EXTENSIONS == {".jpg", ".jpeg", ".png", ".mp4", ".mov", ".avi", ".heic"}
HASH_LENGTH == 8

None == << >>
Some(x) == << x >>

Min(a, b) == IF a <= b THEN a ELSE b

\* str.lower() on the suffixes that occur
Lower(e) ==
    CASE e = ".JPG" -> ".jpg"
      [] e = ".MP4" -> ".mp4"
      [] e = ".TXT" -> ".txt"
      [] OTHER -> e

\* "".join(chars)
RECURSIVE Str(_)
Str(s) == IF s = << >> THEN "" ELSE Head(s) \o Str(Tail(s))

\* s[:n]
Take(s, n) == SubSeq(s, 1, Min(n, Len(s)))

\* ---------------------------------------------------------- file contents
\* The datetimes that occur, as the fields strftime formats.
DT1 == [Y |-> "2024", m |-> "01", d |-> "23", H |-> "10", M |-> "15", S |-> "30"]
DT2 == [Y |-> "2023", m |-> "05", d |-> "01", H |-> "00", M |-> "00", S |-> "00"]
DT3 == [Y |-> "2024", m |-> "01", d |-> "23", H |-> "08", M |-> "00", S |-> "00"]

Rep(c, n) == [k \in 1..n |-> c]

\* What a file holds: its MD5 digest (32 hex digits), whether open() and the
\* metadata decoder succeed on it, its EXIF tags (absent: None), its video
\* creation date and its st_mtime.  f1 and f2 are bit-identical photos, f3 a
\* photo without EXIF, f4 a video that cannot be read, f5 a text file.
PhotoA ==
    [md5 |-> Rep("a", 32), readable |-> TRUE, decodable |-> TRUE,
     exif |-> Some([t36867 |-> Some([parses |-> TRUE, dt |-> DT1]),
                    t306 |-> None,
                    t272 |-> Some(<<"Pixel", "7">>)]),
     creation_date |-> None, mtime |-> DT2]
PhotoB ==
    [md5 |-> Rep("b", 32), readable |-> TRUE, decodable |-> TRUE,
     exif |-> None, creation_date |-> None, mtime |-> DT3]
VideoC ==
    [md5 |-> Rep("c", 32), readable |-> FALSE, decodable |-> FALSE,
     exif |-> None, creation_date |-> None, mtime |-> DT2]

ContentOf(f) ==
    CASE f \in {"f1", "f2"} -> PhotoA
      [] f \in {"f3", "f5"} -> PhotoB
      [] OTHER -> VideoC

Path(dir, stem, ext) == [dir |-> dir, stem |-> stem, ext |-> ext]

\* The files a library may hold when the command is first run.
Catalogue ==
    { [path |-> Path(<<"src">>, "IMG1", ".jpg"), file |-> "f1"],
      [path |-> Path(<<"src">>, "IMG2", ".JPG"), file |-> "f2"],
      [path |-> Path(<<"src", "2024", "01", "23">>, "IMG1", ".jpg"), file |-> "f3"],
      [path |-> Path(<<"src">>, "VID", ".mp4"), file |-> "f4"],
      [path |-> Path(<<"src">>, "notes", ".txt"), file |-> "f5"] }

Destinations == { <<"dst">>, <<"src">> }

\* ------------------------------------------------------------- variables
VARIABLES
    args,       \* the command line: cmd, dry_run, copy, workers, source, destination
    fs,         \* the files: path -> the file there
    dirs,       \* the directories that exist
    phase,      \* the coordinator's position
    files,      \* collect_files' result
    task,       \* path -> the state of its future / worker call
    collected,  \* the futures as_completed has yielded and whose result was taken
    pbar,       \* the progress bar's counter
    runNo,      \* which invocation this is
    fsStart,    \* fs when this invocation started
    dirsStart,  \* dirs when this invocation started
    faults,     \* I/O faults injected so far
    writes,     \* history: the moves and copies that succeeded in this invocation
    call        \* a direct call of compute_file_hash: its arguments and result

vars == <<args, fs, dirs, phase, files, task, collected, pbar, runNo,
          fsStart, dirsStart, faults, writes, call>>

\* ------------------------------------------------- utils.py, on the files
Exists(p) == p \in DOMAIN fs

\* hashlib.md5 over the file's chunks, hexdigest()[:hash_length]; the sentinel
\* "00000000"[:hash_length] when the file cannot be opened or read.
compute_file_hash(path, hash_length) ==
    IF Exists(path) /\ ContentOf(fs[path]).readable
    THEN Take(ContentOf(fs[path]).md5, hash_length)
    ELSE Take(Rep("0", 8), hash_length)

\* str(model).replace(" ", "_"), the model given as its words
RECURSIVE ReplaceSpaces(_)
ReplaceSpaces(words) ==
    IF Len(words) = 1 THEN Head(words)
    ELSE Head(words) \o "_" \o ReplaceSpaces(Tail(words))

\* One EXIF date tag through strptime: <<raised, dt>>
Strptime(tag) == IF tag[1].parses THEN <<FALSE, Some(tag[1].dt)>> ELSE <<TRUE, None>>

get_exif_datetime(path) ==
    IF ~(Exists(path) /\ ContentOf(fs[path]).decodable) THEN <<None, "Unknown">>
    ELSE LET c == ContentOf(fs[path]) IN
         IF c.exif = None THEN <<None, "Unknown">>
         ELSE LET exif == c.exif[1]
                  parsed == IF exif.t36867 # None THEN Strptime(exif.t36867)
                            ELSE IF exif.t306 # None THEN Strptime(exif.t306)
                            ELSE <<FALSE, None>>
                  camera == IF exif.t272 # None THEN ReplaceSpaces(exif.t272[1])
                            ELSE "Unknown"
              IN IF parsed[1] THEN <<None, "Unknown">> ELSE <<parsed[2], camera>>

get_video_datetime(path) ==
    IF ~(Exists(path) /\ ContentOf(fs[path]).decodable) THEN None
    ELSE ContentOf(fs[path]).creation_date

get_file_datetime(path) ==
    LET ext == Lower(path.ext) IN
    IF ext \in {".jpg", ".jpeg", ".png", ".heic"} THEN get_exif_datetime(path)
    ELSE IF ext \in {".mp4", ".mov", ".avi"} THEN <<get_video_datetime(path), "Unknown">>
    ELSE <<None, "Unknown">>

\* dt.strftime("%Y%m%d_%H%M%S")
StrftimeStamp(dt) == dt.Y \o dt.m \o dt.d \o "_" \o dt.H \o dt.M \o dt.S

\* ------------------------------------------------------------- main.py
IsPrefix(a, b) == Len(a) <= Len(b) /\ SubSeq(b, 1, Len(a)) = a

\* Variant of collect_files without the suffix filter.
collect_files_NoFilter(base_dir) == { p \in DOMAIN fs : IsPrefix(base_dir, p.dir) }

\* os.walk(base_dir), keeping the names whose lower-cased suffix is supported
collect_files(base_dir) ==
    { p \in DOMAIN fs : IsPrefix(base_dir, p.dir) /\ Lower(p.ext) \in SUPPORTED_EXTENSIONS }

\* Variant of WithName that puts the name in the library's top directory.
WithName_Top(path, stem, ext) == Path(SubSeq(path.dir, 1, 1), stem, ext)

\* path.with_name(name)
WithName(path, stem, ext) == Path(path.dir, stem, ext)

\* Variant of Confidence that does not depend on dt.
Confidence_AlwaysA(dt) == "A"

\* rename_file_worker, lines 43-48: the confidence letter and the date part
Confidence(dt) == IF dt # None THEN "A" ELSE "C"
DateStr(dt) == IF dt # None THEN StrftimeStamp(dt[1]) ELSE "UnknownDate"

\* Variant of NewStem that leaves the hash out.
NewStem_NoHash(date_str, confidence, camera_model, file_hash) ==
    date_str \o "_" \o confidence \o "_" \o camera_model

\* rename_file_worker, line 51, without the extension (new_path.stem)
NewStem(date_str, confidence, camera_model, file_hash) ==
    date_str \o "_" \o confidence \o "_" \o camera_model \o "_" \o file_hash

\* Variant of DupStem that numbers the suffixes from 0.
DupStem_FromZero(base, i) == base \o "_dup" \o ToString(i - 1)

\* f"{base}_dup{i}"
DupStem(base, i) == base \o "_dup" \o ToString(i)

\* organize_file_worker, lines 88-92
TargetDir(output_dir, dt) == output_dir \o <<dt.Y, dt.m, dt.d>>

\* shutil.move: os.rename replaces an existing destination; a missing source fails
MoveOk(src, dst) == Exists(src)
MoveFs(src, dst) ==
    [p \in (DOMAIN fs \ {src}) \cup {dst} |-> IF p = dst THEN fs[src] ELSE fs[p]]

\* Variant of CopyFs that behaves as a move.
CopyFs_RemovesSource(src, dst) ==
    [p \in (DOMAIN fs \ {src}) \cup {dst} |-> IF p = dst THEN fs[src] ELSE fs[p]]

\* shutil.copy2: a missing source fails, and so does copying a file onto itself
CopyOk(src, dst) == Exists(src) /\ src # dst
CopyFs(src, dst) ==
    [p \in DOMAIN fs \cup {dst} |-> IF p = dst THEN fs[src] ELSE fs[p]]

\* target_dir.mkdir(parents=True, exist_ok=True)
Mkdir(d) == dirs \cup { SubSeq(d, 1, k) : k \in 1..Len(d) }

\* "copy".capitalize(), "move".capitalize()
Capitalize(a) == IF a = "copy" THEN "Copy" ELSE "Move"
Action == IF args.copy THEN "copy" ELSE "move"

\* ------------------------------------------------------------------ Init
Max(a, b) == IF a >= b THEN a ELSE b

\* rename lines 149-150, organize lines 208-209: --workers, or one less than
\* the processors and at least one
WorkerCount(workers, cpu_count) ==
    IF workers = None THEN Max(1, cpu_count - 1) ELSE workers[1]

\* the --workers options and the machines tried
WorkerOptions == {None} \cup { Some(w) : w \in 1..MaxWorkers }
CpuCounts == 1..(MaxWorkers + 1)
WorkerCounts == { WorkerCount(o, c) : o \in WorkerOptions, c \in CpuCounts }

Configs ==
    { [cmd |-> "rename", dry_run |-> d, copy |-> FALSE, workers |-> w,
       source |-> <<"src">>, destination |-> <<"src">>] :
          d \in BOOLEAN, w \in WorkerCounts }
    \cup
    { [cmd |-> "organize", dry_run |-> x[1], copy |-> x[2], workers |-> x[3],
       source |-> <<"src">>, destination |-> x[4]] :
          x \in BOOLEAN \X BOOLEAN \X WorkerCounts \X Destinations }

Libraries == { S \in SUBSET Catalogue : Cardinality(S) <= MaxFiles }

LibraryFs(S) == [p \in { e.path : e \in S } |-> (CHOOSE e \in S : e.path = p).file]

Prefixes(d) == { SubSeq(d, 1, k) : k \in 1..Len(d) }
LibraryDirs(S) == { <<"src">> } \cup UNION { Prefixes(e.path.dir) : e \in S }

NoTasks == [p \in {} |-> 0]
\* the commands do not call compute_file_hash with a length of their own
NoCall == [path |-> Path(<< >>, "", ""), hash_length |-> HASH_LENGTH, result |-> None]

Init ==
    /\ args \in Configs
    /\ \E S \in Libraries : fs = LibraryFs(S) /\ dirs = LibraryDirs(S)
    /\ phase = "Idle"
    /\ files = {}
    /\ task = NoTasks
    /\ collected = {}
    /\ pbar = 0
    /\ runNo = 1
    /\ fsStart = fs
    /\ dirsStart = dirs
    /\ faults = 0
    /\ writes = {}
    /\ call = NoCall

\* ----------------------------------------------------------- coordinator
\* rename lines 137-142, organize lines 191-196: discovery, and the early
\* return when nothing was found
Discover ==
    /\ phase = "Idle"
    /\ files' = collect_files(args.source)
    /\ phase' = IF Cardinality(files') = 0 THEN "Done" ELSE "Dispatching"
    /\ UNCHANGED <<args, fs, dirs, task, collected, pbar, runNo, fsStart,
                   dirsStart, faults, writes>>
    /\ UNCHANGED call

Submitted ==
    [pc |-> "submitted", worker |-> 0, confidence |-> "", date_str |-> "",
     new_path |-> Path(<< >>, "", ""), base |-> "", i |-> 0, status |-> ""]

\* rename lines 152-155, organize lines 211-214: one future per file
Dispatch ==
    /\ phase = "Dispatching"
    /\ task' = [p \in files |-> Submitted]
    /\ phase' = "Collecting"
    /\ UNCHANGED <<args, fs, dirs, files, collected, pbar, runNo, fsStart,
                   dirsStart, faults, writes>>
    /\ UNCHANGED call

Running(p) == task[p].pc \in {"while_exists", "execute"}
Finished(p) == task[p].pc \in {"returned", "raised"}
\* Variant of IdleWorkers with one process more than asked for.
IdleWorkers_OneMore ==
    (1..(args.workers + 1)) \ { task[p].worker : p \in { q \in files : task[q].pc \in {"while_exists", "execute"} } }

IdleWorkers == (1..args.workers) \ { task[p].worker : p \in { q \in files : Running(q) } }
PoolOpen == phase \in {"Collecting", "Aborted"}

\* whether one more I/O fault may be injected
Faulty == IF faults < MaxFaults THEN BOOLEAN ELSE {FALSE}

\* The worker processes are interchangeable: the idle one with the lowest
\* number takes the next call.
NextWorker == CHOOSE w \in IdleWorkers : \A v \in IdleWorkers : w <= v

\* Variant of AfterIfExists that does not look at the filesystem.
AfterIfExists_NoTest(t, raised) ==
    IF raised THEN [t EXCEPT !.pc = "raised"] ELSE [t EXCEPT !.pc = "execute"]

\* lines 55-57 and 96-98: `if new_path.exists()` and what follows it.
\* Path.exists re-raises the OSErrors it does not read as "missing".
AfterIfExists(t, raised) ==
    IF raised THEN [t EXCEPT !.pc = "raised"]
    ELSE IF Exists(t.new_path)
    THEN [t EXCEPT !.pc = "while_exists", !.base = t.new_path.stem, !.i = 1]
    ELSE [t EXCEPT !.pc = "execute"]

\* ---------------------------------------------------- rename_file_worker
\* lines 34-57: the suffix filter, the hash, the metadata, the new name and
\* the first existence test
RenameStart(p) ==
    /\ PoolOpen /\ args.cmd = "rename"
    /\ task[p].pc = "submitted"
    /\ IdleWorkers # {}
    /\ \E fault \in Faulty :
         LET ext == Lower(p.ext)
             file_hash == Str(compute_file_hash(p, HASH_LENGTH))
             meta == get_file_datetime(p)
             confidence == Confidence(meta[1])
             date_str == DateStr(meta[1])
             new_stem == NewStem(date_str, confidence, meta[2], file_hash)
             t == [task[p] EXCEPT !.worker = NextWorker]
         IN /\ task' = [task EXCEPT ![p] =
                  IF ext \notin SUPPORTED_EXTENSIONS
                  THEN [t EXCEPT !.pc = "returned", !.status = "None"]
                  ELSE AfterIfExists([t EXCEPT !.confidence = confidence,
                                               !.date_str = date_str,
                                               !.new_path = WithName(p, new_stem, ext)],
                                     fault)]
            /\ faults' = IF fault THEN faults + 1 ELSE faults
    /\ UNCHANGED <<args, fs, dirs, phase, files, collected, pbar, runNo,
                   fsStart, dirsStart, writes>>
    /\ UNCHANGED call

\* Variant of FallbackDate that ignores the metadata timestamp.
FallbackDate_AlwaysMtime(p, dt) == ContentOf(fs[p]).mtime

\* organize_file_worker lines 83-85: the modification time when the metadata
\* gave no timestamp
FallbackDate(p, dt) == IF dt = None THEN ContentOf(fs[p]).mtime ELSE dt[1]

\* ---------------------------------------------------- organize_file_worker
\* lines 74-98: the suffix filter, the metadata, the st_mtime fallback (whose
\* stat is outside any try), the target path and the first existence test
OrganizeStart(p) ==
    /\ PoolOpen /\ args.cmd = "organize"
    /\ task[p].pc = "submitted"
    /\ IdleWorkers # {}
    /\ \E fault \in (IF faults < MaxFaults THEN {"no", "stat", "exists"} ELSE {"no"}) :
         LET ext == Lower(p.ext)
             meta == get_file_datetime(p)
             needStat == meta[1] = None
             statFails == needStat /\ (fault = "stat" \/ ~Exists(p))
             dt == FallbackDate(p, meta[1])
             t == [task[p] EXCEPT !.worker = NextWorker]
         IN /\ fault = "stat" => needStat
            /\ task' = [task EXCEPT ![p] =
                  IF ext \notin SUPPORTED_EXTENSIONS
                  THEN [t EXCEPT !.pc = "returned", !.status = "None"]
                  ELSE IF statFails
                  THEN [t EXCEPT !.pc = "raised"]
                  ELSE AfterIfExists([t EXCEPT !.new_path =
                                          Path(TargetDir(args.destination, dt),
                                               p.stem, p.ext)],
                                     fault = "exists")]
            /\ faults' = IF fault # "no" THEN faults + 1 ELSE faults
    /\ UNCHANGED <<args, fs, dirs, phase, files, collected, pbar, runNo,
                   fsStart, dirsStart, writes>>
    /\ UNCHANGED call

\* Variant of WhileExists that takes the next suffix without testing it.
WhileExists_OneTry(p) ==
    /\ PoolOpen
    /\ task[p].pc = "while_exists"
    /\ task' = [task EXCEPT ![p] =
                  [@ EXCEPT !.new_path = Path(task[p].new_path.dir,
                                              DupStem(task[p].base, task[p].i),
                                              Lower(p.ext)),
                            !.i = task[p].i + 1,
                            !.pc = "execute"]]
    /\ UNCHANGED <<args, fs, dirs, phase, files, collected, pbar, runNo,
                   fsStart, dirsStart, faults, writes, call>>

\* lines 58-60 and 99-101: one test of the while loop, and its body
WhileExists(p) ==
    /\ PoolOpen
    /\ task[p].pc = "while_exists"
    /\ \E fault \in Faulty :
         /\ task' = [task EXCEPT ![p] =
              IF fault THEN [@ EXCEPT !.pc = "raised"]
              ELSE IF Exists(task[p].new_path)
              THEN [@ EXCEPT !.new_path = Path(task[p].new_path.dir,
                                               DupStem(task[p].base, task[p].i),
                                               Lower(p.ext)),
                             !.i = task[p].i + 1]
              ELSE [@ EXCEPT !.pc = "execute"]]
         /\ faults' = IF fault THEN faults + 1 ELSE faults
    /\ UNCHANGED <<args, fs, dirs, phase, files, collected, pbar, runNo,
                   fsStart, dirsStart, writes>>
    /\ UNCHANGED call

Write(p, dst) == [src |-> p, dst |-> dst, over |-> Exists(dst) /\ dst # p]

\* Variant of RenameDry that moves the file before reporting.
RenameDry_Moves(p) ==
    /\ task' = [task EXCEPT ![p].pc = "returned", ![p].status = "Would rename"]
    /\ fs' = (IF MoveOk(p, task[p].new_path) THEN MoveFs(p, task[p].new_path) ELSE fs)
    /\ UNCHANGED <<faults, writes>>

\* rename_file_worker lines 62-63: the dry run reports and touches nothing
RenameDry(p) ==
    /\ task' = [task EXCEPT ![p].pc = "returned", ![p].status = "Would rename"]
    /\ UNCHANGED <<fs, faults, writes>>

\* rename_file_worker lines 62-69
RenameExecute(p) ==
    /\ PoolOpen /\ args.cmd = "rename"
    /\ task[p].pc = "execute"
    /\ LET dst == task[p].new_path IN
       IF args.dry_run
       THEN RenameDry(p)
       ELSE \E fault \in Faulty :
            IF ~fault /\ MoveOk(p, dst)
            THEN /\ fs' = MoveFs(p, dst)
                 /\ writes' = writes \cup {Write(p, dst)}
                 /\ task' = [task EXCEPT ![p].pc = "returned", ![p].status = "Renamed"]
                 /\ UNCHANGED faults
            ELSE /\ task' = [task EXCEPT ![p].pc = "returned", ![p].status = "Error"]
                 /\ faults' = IF fault THEN faults + 1 ELSE faults
                 /\ UNCHANGED <<fs, writes>>
    /\ UNCHANGED <<args, dirs, phase, files, collected, pbar, runNo, fsStart, dirsStart>>
    /\ UNCHANGED call

\* organize_file_worker lines 103-116
OrganizeExecute(p) ==
    /\ PoolOpen /\ args.cmd = "organize"
    /\ task[p].pc = "execute"
    /\ LET dst == task[p].new_path IN
       IF args.dry_run
       THEN /\ task' = [task EXCEPT ![p].pc = "returned", ![p].status = "Would " \o Action]
            /\ UNCHANGED <<fs, dirs, faults, writes>>
       ELSE \E fault \in (IF faults < MaxFaults THEN {"no", "mkdir", "op"} ELSE {"no"}) :
            IF fault = "mkdir"
            THEN /\ task' = [task EXCEPT ![p].pc = "returned", ![p].status = "Error"]
                 /\ faults' = faults + 1
                 /\ UNCHANGED <<fs, dirs, writes>>
            ELSE /\ dirs' = Mkdir(dst.dir)
                 /\ IF fault = "no" /\ (IF args.copy THEN CopyOk(p, dst) ELSE MoveOk(p, dst))
                    THEN /\ fs' = IF args.copy THEN CopyFs(p, dst) ELSE MoveFs(p, dst)
                         /\ writes' = writes \cup {Write(p, dst)}
                         /\ task' = [task EXCEPT ![p].pc = "returned",
                                                 ![p].status = Capitalize(Action) \o "d"]
                         /\ UNCHANGED faults
                    ELSE /\ task' = [task EXCEPT ![p].pc = "returned", ![p].status = "Error"]
                         /\ faults' = IF fault = "op" THEN faults + 1 ELSE faults
                         /\ UNCHANGED <<fs, writes>>
    /\ UNCHANGED <<args, phase, files, collected, pbar, runNo, fsStart, dirsStart>>
    /\ UNCHANGED call

\* ------------------------------------------------- coordinator, continued
\* Variant of Collect that submits a file again when its result is an error.
Collect_Retries(p) ==
    /\ phase = "Collecting"
    /\ p \notin collected
    /\ Finished(p)
    /\ IF task[p].pc = "raised"
       THEN /\ phase' = "Aborted"
            /\ UNCHANGED <<collected, pbar, task>>
       ELSE IF task[p].status = "Error"
       THEN /\ task' = [task EXCEPT ![p] = Submitted]
            /\ UNCHANGED <<collected, pbar, phase>>
       ELSE /\ collected' = collected \cup {p}
            /\ pbar' = pbar + 1
            /\ UNCHANGED <<phase, task>>
    /\ UNCHANGED <<args, fs, dirs, files, runNo, fsStart, dirsStart, faults, writes>>
    /\ UNCHANGED call

\* lines 158-162 and 217-221: as_completed yields a finished future;
\* future.result() returns the worker's string or re-raises its exception
Collect(p) ==
    /\ phase = "Collecting"
    /\ p \notin collected
    /\ Finished(p)
    /\ IF task[p].pc = "raised"
       THEN /\ phase' = "Aborted"
            /\ UNCHANGED <<collected, pbar>>
       ELSE /\ collected' = collected \cup {p}
            /\ pbar' = pbar + 1
            /\ UNCHANGED phase
    /\ UNCHANGED <<args, fs, dirs, files, task, runNo, fsStart, dirsStart, faults, writes>>
    /\ UNCHANGED call

\* lines 164 and 223: the loop is exhausted, the pool is shut down, the report
Report ==
    /\ phase = "Collecting"
    /\ collected = files
    /\ phase' = "Done"
    /\ UNCHANGED <<args, fs, dirs, files, task, collected, pbar, runNo, fsStart,
                   dirsStart, faults, writes>>
    /\ UNCHANGED call

\* lines 154 and 213: leaving the `with` block on an exception waits for the
\* pool (shutdown(wait=True)), then the exception ends the command
Unwind ==
    /\ phase = "Aborted"
    /\ \A p \in files : Finished(p)
    /\ phase' = "Failed"
    /\ UNCHANGED <<args, fs, dirs, files, task, collected, pbar, runNo, fsStart,
                   dirsStart, faults, writes>>
    /\ UNCHANGED call

\* `toki rename` is run again, with the same command line, on what the last
\* run left
Rerun ==
    /\ phase \in {"Done", "Failed"}
    /\ args.cmd = "rename"
    /\ runNo < MaxRuns
    /\ runNo' = runNo + 1
    /\ phase' = "Idle"
    /\ files' = {}
    /\ task' = NoTasks
    /\ collected' = {}
    /\ pbar' = 0
    /\ fsStart' = fs
    /\ dirsStart' = dirs
    /\ writes' = {}
    /\ UNCHANGED <<args, fs, dirs, faults>>
    /\ UNCHANGED call

Next ==
    \/ Discover
    \/ Dispatch
    \/ \E p \in files : RenameStart(p)
    \/ \E p \in files : OrganizeStart(p)
    \/ \E p \in files : WhileExists(p)
    \/ \E p \in files : RenameExecute(p)
    \/ \E p \in files : OrganizeExecute(p)
    \/ \E p \in files : Collect(p)
    \/ Report
    \/ Unwind
    \/ Rerun

Spec == Init /\ [][Next]_vars

\* The pool's processes run whatever call is ready, and the coordinator's
\* thread takes its next step; starting the command again is the user's choice.
WorkerStep ==
    \E p \in files :
        \/ RenameStart(p) \/ OrganizeStart(p) \/ WhileExists(p)
        \/ RenameExecute(p) \/ OrganizeExecute(p)
CoordinatorStep ==
    Discover \/ Dispatch \/ (\E p \in files : Collect(p)) \/ Report \/ Unwind
SpecFair == Spec /\ WF_vars(WorkerStep) /\ WF_vars(CoordinatorStep)

\* --------------------------------------------- compute_file_hash, called directly
\* The function is called with a path and a length of the caller's choice on
\* some library; MaxHashLength is the longest length tried (an MD5 digest has
\* 32 hex digits).
HashPaths == { e.path : e \in Catalogue }
HashInit ==
    /\ args = [cmd |-> "compute_file_hash", dry_run |-> FALSE, copy |-> FALSE,
               workers |-> 1, source |-> <<"src">>, destination |-> <<"src">>]
    /\ \E S \in Libraries : fs = LibraryFs(S) /\ dirs = LibraryDirs(S)
    /\ phase = "Idle"
    /\ files = {}
    /\ task = NoTasks
    /\ collected = {}
    /\ pbar = 0
    /\ runNo = 1
    /\ fsStart = fs
    /\ dirsStart = dirs
    /\ faults = 0
    /\ writes = {}
    /\ call \in [path : HashPaths, hash_length : 0..MaxHashLength, result : {None}]

HashCall ==
    /\ call.result = None
    /\ call' = [call EXCEPT !.result = Some(compute_file_hash(call.path, call.hash_length))]
    /\ UNCHANGED <<args, fs, dirs, phase, files, task, collected, pbar, runNo,
                   fsStart, dirsStart, faults, writes>>

HashNext == HashCall
HashSpec == HashInit /\ [][HashNext]_vars

\* ================================================================ claims
Ended == phase \in {"Done", "Failed"}
Reached(p) == p \in DOMAIN task /\ task[p].pc \in {"while_exists", "execute", "returned"}
                 /\ task[p].status # "None"

\* C1: when the coordinator has finished, it has taken exactly one result for
\* every discovered file, also when a per-file filesystem call failed.
C1_OneOutcomePerFile ==
    Ended => (collected = files /\ pbar = Cardinality(files))

\* C2: an I/O failure in a worker is an Error outcome of that one file: no
\* worker call ends by raising, and the coordinator is never aborted by one.
C2_FailureIsLocal ==
    /\ \A p \in DOMAIN task : task[p].pc # "raised"
    /\ phase \notin {"Aborted", "Failed"}

\* C3, as stated: within one run no destination is written by two different
\* source files and no write replaces an existing file, for every number of
\* workers and every interleaving.
C3_NoSharedDestination ==
    /\ \A a, b \in writes : a.dst = b.dst => a.src = b.src
    /\ \A a \in writes : ~a.over

\* C3, amended: with a single worker, within one run no destination is written
\* by two different source files and no write replaces an existing file.
C3_NoSharedDestinationOneWorker ==
    args.workers = 1 => C3_NoSharedDestination

\* C3 witness: one worker has written two files that asked for the same name,
\* the second one under a _dup name.
C3_Witness ==
    /\ args.workers = 1
    /\ \E a, b \in writes :
         /\ a.src # b.src
         /\ a.dst.dir = b.dst.dir
         /\ task[b.src].i > 0
         /\ task[b.src].base = a.dst.stem

\* C4: a dry run leaves the files and the directories as they were.
C4_DryRunChangesNothing ==
    args.dry_run => (fs = fsStart /\ dirs = dirsStart)

\* C4 witness: a dry run has reported what it would do with a file and ended.
C4_Witness ==
    /\ args.dry_run /\ phase = "Done"
    /\ \E p \in files : task[p].status \in {"Would rename", "Would move", "Would copy"}

\* C5: a file whose lower-cased suffix is not supported is never discovered,
\* never the source or the destination of a move or copy, and stays where it
\* was with what it held.
Unsupported(p) == Lower(p.ext) \notin SUPPORTED_EXTENSIONS
C5_UnsupportedUntouched ==
    \A p \in DOMAIN fsStart :
        Unsupported(p) =>
            /\ p \notin files
            /\ p \in DOMAIN fs /\ fs[p] = fsStart[p]
            /\ \A a \in writes : a.src # p /\ a.dst # p

\* C5 witness: a run that moved or copied a file has ended in a library that
\* holds an unsupported file.
C5_Witness ==
    /\ phase = "Done" /\ writes # {}
    /\ \E p \in DOMAIN fs : Unsupported(p)

\* C6: a second rename run over the result of the first, with nothing changed
\* in between and no I/O fault, leaves every file at the name it had.
C6_RenameIdempotent ==
    (args.cmd = "rename" /\ ~args.dry_run /\ runNo = 2 /\ phase = "Done" /\ faults = 0)
        => fs = fsStart

\* What the catalogue's files are expected to yield, written out by hand:
\* f1 and f2 carry EXIF DateTimeOriginal 2024:01:23 10:15:30 and Model
\* "Pixel 7"; f3 has no EXIF and was modified on 2024-01-23; f4 cannot be
\* read and was modified on 2023-05-01.
ExpectedDate(f) ==
    IF f \in {"f1", "f2", "f3"} THEN <<"2024", "01", "23">> ELSE <<"2023", "05", "01">>
ExpectedStem(f) ==
    CASE f \in {"f1", "f2"} -> "20240123_101530_A_Pixel_7_aaaaaaaa"
      [] f = "f3" -> "UnknownDate_C_Unknown_bbbbbbbb"
      [] OTHER -> "UnknownDate_C_Unknown_00000000"
HasCaptureTime(f) == f \in {"f1", "f2"}

SourceKept(p) == p \in DOMAIN fs /\ fs[p] = fsStart[p]
AtDestination(p) ==
    task[p].new_path \in DOMAIN fs /\ fs[task[p].new_path] = fsStart[p]

\* C8, as stated: after an organize run that copies, every discovered file is
\* still at its path with what it held; after one that moves, every file
\* reported moved is no longer at its path and is at the reported destination.
C8_CopyKeepsMoveRelocates ==
    (Ended /\ args.cmd = "organize" /\ ~args.dry_run) =>
        \A p \in files :
            IF args.copy THEN SourceKept(p)
            ELSE task[p].status = "Moved" => (~SourceKept(p) /\ AtDestination(p))

\* C8, amended: after an organize run that copies, every discovered file is
\* still at its path with what it held; after one that moves, every file
\* reported moved is no longer at its path and, when the run had a single
\* worker, is at the reported destination.
C8_CopyKeepsMoveRelocatesOneWorker ==
    (Ended /\ args.cmd = "organize" /\ ~args.dry_run) =>
        \A p \in files :
            IF args.copy THEN SourceKept(p)
            ELSE task[p].status = "Moved" =>
                    (~SourceKept(p) /\ (args.workers = 1 => AtDestination(p)))

\* C8 witness: two workers have copied two files into the source tree itself,
\* one of them under a _dup name, and the run has ended.
C8_Witness ==
    /\ phase = "Done" /\ args.cmd = "organize" /\ args.copy /\ args.workers = 2
    /\ args.destination = args.source
    /\ \E p, q \in files :
         /\ p # q /\ task[p].status = "Copyd" /\ task[q].status = "Copyd"
         /\ task[q].i > 0

\* C9: in every name rename builds, the code is A exactly when the date part
\* is the timestamp read from the metadata and C exactly when it is
\* UnknownDate.
C9_ConfidenceMatchesDate ==
    args.cmd = "rename" =>
        \A p \in DOMAIN task :
            Reached(p) =>
                LET t == task[p]
                    name == IF t.i > 0 THEN t.base ELSE t.new_path.stem
                IN /\ t.confidence \in {"A", "C"}
                   /\ t.confidence = "A" <=> t.date_str = "20240123_101530"
                   /\ t.confidence = "C" <=> t.date_str = "UnknownDate"
                   /\ t.confidence = "A" <=> HasCaptureTime(fsStart[p])
                   /\ name = ExpectedStem(fsStart[p])

\* C9 witness: one run has named a file with a timestamp and one without.
C9_Witness ==
    \E p, q \in DOMAIN task :
        /\ task[p].status = "Renamed" /\ task[p].confidence = "A"
        /\ task[q].status = "Renamed" /\ task[q].confidence = "C"

CanonPath(p) == Path(p.dir, ExpectedStem(fsStart[p]), Lower(p.ext))
NameIsFree(p) ==
    /\ CanonPath(p) \notin DOMAIN fsStart
    /\ \A q \in files \ {p} : CanonPath(q) # CanonPath(p)

\* C10: a file whose canonical name is neither taken in its directory nor
\* asked for by another file of the run is given that name, a function of
\* the file alone, whatever the number of workers and their interleaving.
C10_NameDependsOnFileOnly ==
    args.cmd = "rename" =>
        \A p \in DOMAIN task :
            NameIsFree(p) =>
                /\ task[p].pc \in {"execute", "returned"}
                      => task[p].new_path = CanonPath(p)
                /\ (Ended /\ task[p].status = "Renamed")
                      => (CanonPath(p) \in DOMAIN fs /\ fs[CanonPath(p)] = fsStart[p])

\* C10 witness: two workers have renamed two files with different canonical
\* names, and the run has ended.
C10_Witness ==
    /\ phase = "Done" /\ args.workers = 2
    /\ \E p, q \in files :
         /\ p # q /\ NameIsFree(p) /\ NameIsFree(q)
         /\ task[p].status = "Renamed" /\ task[q].status = "Renamed"

\* The name a worker asks for first: the canonical name in rename, the
\* file's own name under its date directory in organize.
Candidate(p) ==
    IF args.cmd = "rename" THEN CanonPath(p)
    ELSE Path(args.destination \o ExpectedDate(fsStart[p]), p.stem, p.ext)
Dup(p, n) ==
    Path(Candidate(p).dir, Candidate(p).stem \o "_dup" \o ToString(n), Lower(p.ext))

\* C11: with one worker (no other worker acts during a resolution pass) the
\* name a pass ends with does not exist; it is the candidate itself when the
\* candidate was free, and otherwise base_dupN for the smallest N >= 1 whose
\* name is free, the suffix appended to the original base.  Two bit-identical
\* photos in a fresh directory end as base and base_dup1.
C11_SmallestFreeSuffix ==
    args.workers = 1 =>
        /\ \A p \in DOMAIN task :
             task[p].pc = "execute" =>
                LET t == task[p] IN
                /\ t.new_path \notin DOMAIN fs
                /\ t.i = 0 => t.new_path = Candidate(p)
                /\ t.i > 0 =>
                     /\ t.new_path = Dup(p, t.i - 1)
                     /\ t.i >= 2
                     /\ Candidate(p) \in DOMAIN fs
                     /\ \A n \in 1..(t.i - 2) : Dup(p, n) \in DOMAIN fs
        /\ ( /\ args.cmd = "rename" /\ ~args.dry_run /\ runNo = 1
             /\ faults = 0 /\ phase = "Done"
             /\ fsStart = LibraryFs({ e \in Catalogue : e.file \in {"f1", "f2"} }) )
           => fs = ( Path(<<"src">>, "20240123_101530_A_Pixel_7_aaaaaaaa", ".jpg") :> "f1"
                     @@ Path(<<"src">>, "20240123_101530_A_Pixel_7_aaaaaaaa_dup1", ".jpg") :> "f2" )
                \/ fs = ( Path(<<"src">>, "20240123_101530_A_Pixel_7_aaaaaaaa", ".jpg") :> "f2"
                     @@ Path(<<"src">>, "20240123_101530_A_Pixel_7_aaaaaaaa_dup1", ".jpg") :> "f1" )

\* C11 witness: one worker has moved a file to base_dup2, base and base_dup1
\* being taken.
C11_Witness ==
    /\ args.workers = 1
    /\ \E p \in DOMAIN task :
         /\ task[p].status \in {"Renamed", "Moved", "Copyd"}
         /\ task[p].i = 3
         /\ task[p].new_path = Dup(p, 2)

\* A real run with a single worker, taken file by file in the given order
\* from the files `dom`: every file gets its candidate name or the first
\* free _dupN (C11), and its move or copy changes what the next file sees.
RECURSIVE FirstFree(_, _, _)
FirstFree(p, dom, n) == IF Dup(p, n) \notin dom THEN Dup(p, n) ELSE FirstFree(p, dom, n + 1)
Resolve(p, dom) == IF Candidate(p) \notin dom THEN Candidate(p) ELSE FirstFree(p, dom, 1)
RECURSIVE SeqDest(_, _)
SeqDest(order, dom) ==
    IF order = << >> THEN << >>
    ELSE LET p == Head(order)
             d == Resolve(p, dom)
             after == IF args.copy THEN dom \cup {d} ELSE (dom \ {p}) \cup {d}
         IN <<[src |-> p, dst |-> d]>> \o SeqDest(Tail(order), after)
Orders(S) ==
    { o \in [1..Cardinality(S) -> S] : \A a, b \in 1..Cardinality(S) : o[a] = o[b] => a = b }

\* C12: the destination a dry run reports for a file is the destination the
\* file gets in a real run with one worker from the same files.  The dry
\* run's reports do not depend on the order of the files, so some order of
\* the real run must give every file the destination reported for it.
C12_DryRunPredictsRealRun ==
    (args.dry_run /\ phase = "Done" /\ faults = 0) =>
        \E order \in Orders(files) :
            \A k \in 1..Len(SeqDest(order, DOMAIN fsStart)) :
                LET r == SeqDest(order, DOMAIN fsStart)[k]
                IN task[r.src].new_path = r.dst

\* The sequential run above is what the model's real runs with one worker do.
SeqDestMatchesRealRun ==
    (~args.dry_run /\ args.workers = 1 /\ phase = "Done" /\ faults = 0 /\ runNo = 1) =>
        \E order \in Orders(files) :
            \A k \in 1..Len(SeqDest(order, DOMAIN fsStart)) :
                LET r == SeqDest(order, DOMAIN fsStart)[k]
                IN task[r.src].new_path = r.dst

\* The coordinator's state in the machine Idle -> Discovering -> Done |
\* Dispatching -> Collecting -> Done.  Discovering is the inside of Discover;
\* a coordinator that a worker's exception stops (C1) has stopped in
\* Collecting.
Stage == IF phase \in {"Aborted", "Failed"} THEN "Collecting" ELSE phase
Edges ==
    { <<"Idle", "Done">>, <<"Idle", "Dispatching">>,
      <<"Dispatching", "Collecting">>, <<"Collecting", "Done">> }
PcRank(pc) ==
    CASE pc = "submitted" -> 0
      [] pc = "while_exists" -> 1
      [] pc = "execute" -> 2
      [] OTHER -> 3

\* C13: within one run the coordinator only takes the machine's steps;
\* nothing is submitted before discovery is over and the discovered files
\* never change afterwards; a run that discovers no file goes straight to
\* Done with no task, no outcome and no change; every discovered file is
\* exactly one task; and a pipeline only moves forward: a finished task,
\* an Error included, is never changed or started again.
C13_StateMachine ==
    [][ runNo' = runNo =>
          /\ Stage' # Stage => <<Stage, Stage'>> \in Edges
          /\ phase \in {"Idle", "Dispatching"} =>
                task = NoTasks /\ collected = {} /\ pbar = 0 /\ fs = fsStart
          /\ phase = "Idle" => files = {}
          /\ phase # "Idle" => files' = files
          /\ (phase = "Idle" /\ files' = {}) =>
                phase' = "Done" /\ task' = NoTasks /\ collected' = {} /\ fs' = fs
          /\ (phase = "Done" /\ files = {}) => task = NoTasks /\ collected = {}
          /\ Stage = "Collecting" => DOMAIN task = files /\ DOMAIN task' = files
          /\ \A p \in DOMAIN task :
                p \in DOMAIN task' =>
                   /\ PcRank(task'[p].pc) >= PcRank(task[p].pc)
                   /\ PcRank(task[p].pc) > 0 => task'[p].worker = task[p].worker
                   /\ Finished(p) => task'[p] = task[p]
      ]_vars
C13_Witness ==
    /\ phase = "Done"
    /\ Cardinality(files) = 2
    /\ collected = files
    /\ \E p \in files : task[p].status = "Error"

\* C14: under fair scheduling a started run reaches Done; the counter is the
\* number of results taken, goes up by one for one finished task at a time
\* and never passes the number of discovered files; and the report is made
\* when every task has finished and has been counted.
C14_TerminatesWithCount ==
    /\ (phase = "Idle") ~> (phase = "Done")
    /\ [](pbar = Cardinality(collected) /\ pbar <= Cardinality(files))
    /\ [](phase = "Done" =>
            /\ \A p \in files : Finished(p)
            /\ pbar = Cardinality(files))
    /\ [][ (runNo' = runNo /\ pbar' # pbar) =>
              /\ pbar' = pbar + 1
              /\ \E p \in files : /\ p \notin collected
                                  /\ Finished(p)
                                  /\ collected' = collected \cup {p} ]_vars

\* What of C14 does hold: the counting, and Done unless a worker raised.
C14_CountsAndEndsUnlessRaised ==
    /\ (phase = "Idle") ~> (phase = "Done" \/ \E p \in DOMAIN task : task[p].pc = "raised")
    /\ [](pbar = Cardinality(collected) /\ pbar <= Cardinality(files))
    /\ [](phase = "Done" =>
            /\ \A p \in files : Finished(p)
            /\ pbar = Cardinality(files))

InProgress == { p \in DOMAIN task : Running(p) }

\* C15: never more pipelines in progress than the worker count, which is the
\* --workers option or max(1, processors - 1); the pipelines in progress are
\* on different workers, a pipeline stays on the worker that started it, and
\* a step of the coordinator changes no file and no directory.
C15_BoundedPool ==
    /\ [](/\ args.workers >= 1
          /\ Cardinality(InProgress) <= args.workers
          /\ \A p \in InProgress : task[p].worker \in 1..args.workers
          /\ \A p, q \in InProgress : task[p].worker = task[q].worker => p = q
          /\ \A c \in CpuCounts :
                /\ WorkerCount(None, c) = (IF c = 1 THEN 1 ELSE c - 1)
                /\ \A w \in 1..MaxWorkers : WorkerCount(Some(w), c) = w)
    /\ [][ /\ \A p \in DOMAIN task :
                (p \in DOMAIN task' /\ task[p].pc # "submitted" /\ runNo' = runNo)
                    => task'[p].worker = task[p].worker
           /\ (phase' # phase \/ collected' # collected \/ files' # files)
                    => (fs' = fs /\ dirs' = dirs /\ writes' \subseteq writes) ]_vars
C15_Witness ==
    /\ Cardinality(InProgress) = args.workers
    /\ \E p \in files : task[p].pc = "submitted"
    /\ \E p \in InProgress : task[p].i > 0

\* utils.py line 23 succeeded: the file is there and could be read
HashReadOk == call.path \in DOMAIN fs /\ ContentOf(fs[call.path]).readable

\* C16: for every length L in 0..32 the result has exactly L characters: the
\* first L hex digits of the digest when the file was read, L zeros when it
\* was not.
C16_HashHasRequestedLength ==
    (call.result # None /\ call.hash_length <= 32) =>
        LET h == call.result[1] IN
        /\ Len(h) = call.hash_length
        /\ HashReadOk =>
              \A k \in 1..Len(h) : h[k] = ContentOf(fs[call.path]).md5[k]
        /\ ~HashReadOk => \A k \in 1..Len(h) : h[k] = "0"

\* What of C16 does hold: the result has min(L, 32) characters of the digest,
\* or min(L, 8) zeros.
C16_HashLengthAsCoded ==
    call.result # None =>
        LET h == call.result[1] IN
        /\ HashReadOk => Len(h) = Min(call.hash_length, 32)
        /\ ~HashReadOk => Len(h) = Min(call.hash_length, 8) /\ \A k \in 1..Len(h) : h[k] = "0"

\* a supported file whose content and metadata cannot be read
Unreadable(p) ==
    /\ p \in DOMAIN fsStart
    /\ ~Unsupported(p)
    /\ ~ContentOf(fsStart[p]).readable
    /\ ~ContentOf(fsStart[p]).decodable
SentinelStem == "UnknownDate_C_Unknown_00000000"

\* C17: for a file that cannot be read the extractor gives no timestamp and
\* device Unknown, the fingerprint is the run of zeros, the worker does not
\* raise but goes on to the name and to the file operation, and its result
\* is an error only when the move or copy failed.
C17_UnreadableRecoveredLocally ==
    \A p \in DOMAIN task :
        (Unreadable(p) /\ task[p].pc # "submitted") =>
            /\ task[p].pc # "raised"
            /\ p \in DOMAIN fs =>
                  /\ get_file_datetime(p) = <<None, "Unknown">>
                  /\ Str(compute_file_hash(p, HASH_LENGTH)) = "00000000"
            /\ args.cmd = "rename" =>
                  /\ task[p].confidence = "C"
                  /\ task[p].new_path.dir = p.dir
                  /\ task[p].new_path.stem \in
                        { SentinelStem } \cup { SentinelStem \o "_dup" \o ToString(n) : n \in 1..MaxFiles }
            /\ task[p].status = "Error" => (faults > 0 \/ p \notin DOMAIN fs)

\* What of C17 does hold: the same, for the workers that did not raise.
C17_RecoveredUnlessRaised ==
    \A p \in DOMAIN task :
        (Unreadable(p) /\ task[p].pc \notin {"submitted", "raised"}) =>
            /\ p \in DOMAIN fs =>
                  /\ get_file_datetime(p) = <<None, "Unknown">>
                  /\ Str(compute_file_hash(p, HASH_LENGTH)) = "00000000"
            /\ args.cmd = "rename" =>
                  /\ task[p].confidence = "C"
                  /\ task[p].new_path.dir = p.dir
                  /\ task[p].new_path.stem \in
                        { SentinelStem } \cup { SentinelStem \o "_dup" \o ToString(n) : n \in 1..MaxFiles }
            /\ task[p].status = "Error" => (faults > 0 \/ p \notin DOMAIN fs)

\* the directories in which this run has moved a file
Touched == { w.src.dir : w \in writes }

\* C18: in a real rename run every file stays in its directory, under a name
\* whose extension is the original one in lower case; the directories are
\* the same as before; and a directory none of whose files was renamed
\* holds exactly the files it held.
C18_RenameInPlace ==
    (args.cmd = "rename" /\ ~args.dry_run) =>
        /\ dirs = dirsStart
        /\ \A w \in writes :
              /\ w.dst.dir = w.src.dir
              /\ w.dst.ext = Lower(w.src.ext)
              /\ w.src \in DOMAIN fsStart
        /\ \A p \in DOMAIN task :
              task[p].pc \in {"while_exists", "execute"} \/ task[p].status \in {"Renamed", "Error"}
                 => task[p].new_path.dir = p.dir /\ task[p].new_path.ext = Lower(p.ext)
        /\ \A q \in DOMAIN fs \cup DOMAIN fsStart :
              q.dir \notin Touched =>
                 /\ q \in DOMAIN fs /\ q \in DOMAIN fsStart
                 /\ fs[q] = fsStart[q]
        /\ \A q \in DOMAIN fs : \E o \in DOMAIN fsStart : o.dir = q.dir /\ fsStart[o] = fs[q]
C18_Witness ==
    /\ args.cmd = "rename" /\ ~args.dry_run
    /\ phase = "Done"
    /\ \E w \in writes : w.src.ext = ".JPG" /\ w.dst.ext = ".jpg"
    /\ \E w \in writes : w.src.dir # <<"src">> /\ w.dst # w.src

Succeeded(p) == p \in DOMAIN task /\ task[p].status \in {"Renamed", "Moved"}

\* C19: in a real rename or organize-move run with one worker no move lands
\* on a path that holds a file, the library has as many files as when the
\* run started, each of them the file it was, and a file reported as renamed
\* or moved is at the reported destination and nowhere else.
C19_OneWorkerLosesNothing ==
    (args.workers = 1 /\ ~args.dry_run /\ ~args.copy) =>
        /\ \A w \in writes : ~w.over
        /\ \A p \in DOMAIN task :
              task[p].pc = "execute" => task[p].new_path \notin DOMAIN fs
        /\ Cardinality(DOMAIN fs) = Cardinality(DOMAIN fsStart)
        /\ { fs[q] : q \in DOMAIN fs } = { fsStart[q] : q \in DOMAIN fsStart }
        /\ \A p \in DOMAIN task :
              Succeeded(p) =>
                 \A q \in DOMAIN fs : (fs[q] = fsStart[p]) <=> (q = task[p].new_path)
C19_Witness ==
    /\ args.workers = 1 /\ ~args.dry_run /\ ~args.copy
    /\ Ended
    /\ Cardinality(writes) = 2
    /\ \E p \in DOMAIN task : Succeeded(p) /\ task[p].i >= 2

====
